---- MODULE Spec2Model ----
(***************************************************************************)
(* The telemetry state store of src/python/app.py: one MQTTState object,   *)
(* written by the MQTT client's on_message callback and read, without any  *)
(* lock, by the polling loop of main().  Every step below is one attribute *)
(* read or write of the source, the granularity at which CPython may       *)
(* switch threads.                                                         *)
(***************************************************************************)
EXTENDS Integers, Sequences, FiniteSets, TLC

VARIABLES
    connected,    \* MQTTState.connected
    history,      \* MQTTState.history (one list object, mutated in place)
    latest,       \* MQTTState.latest
    previous,     \* MQTTState.previous
    max_history,  \* MQTTState.max_history
    pc,           \* per callback thread: the line its callback is about to execute, or the exception that ended the thread
    msg,          \* per callback thread: the MQTTMessage being handled
    payload,      \* per callback thread: the local variable payload
    tmp,          \* per callback thread: the result of userdata.latest.copy()
    logged,       \* per callback thread: the logger.error line of its last call
    rpc,          \* the line the polling loop is about to execute, or the exception that ended it
    data,         \* polling loop local: data
    prev,         \* polling loop local: prev
    chart1,       \* chart_data argument of the Temperature metric (line 260)
    chart2,       \* chart_data argument of the Gas Level metric (line 283)
    rows,         \* polling loop: the rows pd.DataFrame has read so far from state.history
    sent,         \* history variable: payloads of the on_message calls begun
    applied,      \* history variable: payloads of the calls that returned without raising
    stable,       \* history variable: the store when on_message last returned
    rseen,        \* history variable: the stable stores of the current polling iteration
    client,       \* what start_mqtt_client returned (cached by st.cache_resource)
    script,       \* the line main() of app.py is about to execute
    sidebar,      \* what render_sidebar showed as Network Status (app.py:152-155)
    subscribed,   \* number of client.subscribe calls made by app.py
    lastcb,       \* history variable: the last connection lifecycle callback of app.py
    connects,     \* history variable: number of on_connect calls with rc == 0
    callbacks,    \* history variable: number of lifecycle callbacks of app.py
    console,      \* the line main.py is about to execute, or how its process ended
    console_out,  \* the lines the last on_connect of main.py has printed (without their emoji)
    console_subscribed,  \* number of client.subscribe calls made by main.py
    console_connects,    \* history variable: on_connect calls of main.py with rc == 0
    console_callbacks    \* history variable: number of on_connect calls of main.py

store == <<connected, history, latest, previous, max_history>>
locals == <<pc, msg, payload, tmp, logged>>
reader == <<rpc, data, prev, chart1, chart2, rows>>
ghost == <<sent, applied, stable, rseen>>
life == <<client, script, sidebar, subscribed, lastcb, connects, callbacks>>
cons == <<console, console_out, console_subscribed, console_connects, console_callbacks>>
vars == <<store, locals, reader, ghost, life, cons>>

-----------------------------------------------------------------------------
(* Bounds of the model.                                                    *)

\* Capacity of the history; the source sets 100 (app.py:53), scaled down so
\* that eviction happens within the bound on messages.
MaxHistory == 2

\* Number of on_message calls in one behaviour of the program.
MaxMsgs == 3

\* Number of on_message calls in one behaviour with several producers.
MaxProduced == 3

\* Number of on_message calls in one behaviour of the callback alone.
MaxKindMsgs == 4

\* Number of on_message calls, and of connection lifecycle callbacks of each
\* program, in one behaviour of the connection lifecycle.
MaxLifeMsgs == 3
MaxCallbacks == 3

-----------------------------------------------------------------------------
(* Python values.  Every value is a record of its type name and contents,  *)
(* a dict being the set of its items.                                      *)

None == [t |-> "NoneType", v |-> 0]
Dict(items) == [t |-> "dict", v |-> items]
PyInt(n) == [t |-> "int", v |-> n]
Frame(rs) == [t |-> "DataFrame", v |-> rs]
Series(cells) == [t |-> "Series", v |-> cells]
NaN == [t |-> "NaN", v |-> 0]
Exception(type, text) == [t |-> type, v |-> text]
IsException(x) == x.t \in {"KeyError", "AttributeError"}
NoMsg == [topic |-> <<>>, payload |-> ""]

\* bool(x): an empty dict and the integer 0 are falsy.
Truthy(x) ==
    CASE x.t = "dict" -> x.v # {}
      [] x.t = "int" -> x.v # 0
      [] OTHER -> FALSE

\* Whether x.copy() exists: dict has it, int does not (AttributeError).
HasCopy(x) == x.t = "dict"

\* Whether x.get exists: dict has it, int does not (AttributeError).
HasGet(x) == x.t = "dict"

\* d.keys() and d[k] of a dict.
Keys(d) == {item[1] : item \in d.v}
DictGet(d, k) == (CHOOSE item \in d.v : item[1] = k)[2]

\* The fields of a sample that the dashboard reads (app.py:252-430).
Fields ==
    {"temperature", "gas_level", "temperature_out", "humidity_out",
     "motor_adc", "flame_status", "acceleration_x", "acceleration_y",
     "acceleration_z", "gyro_x", "gyro_y", "gyro_z"}

\* A sample with every field, each of value n, and its JSON text.
Sample(n) == Dict({<<f, n>> : f \in Fields})
Reading1 == "{\"temperature\": 1, \"gas_level\": 1, \"temperature_out\": 1, \"humidity_out\": 1, \"motor_adc\": 1, \"flame_status\": 1, \"acceleration_x\": 1, \"acceleration_y\": 1, \"acceleration_z\": 1, \"gyro_x\": 1, \"gyro_y\": 1, \"gyro_z\": 1}"
Reading2 == "{\"temperature\": 2, \"gas_level\": 2, \"temperature_out\": 2, \"humidity_out\": 2, \"motor_adc\": 2, \"flame_status\": 2, \"acceleration_x\": 2, \"acceleration_y\": 2, \"acceleration_z\": 2, \"gyro_x\": 2, \"gyro_y\": 2, \"gyro_z\": 2}"

\* json.loads(raw) on the payload texts of the model: the decoded value, or
\* the exception raised.
JSONDecodeError == [t |-> "JSONDecodeError", v |-> 0]

\* A decoder that answers an empty document instead of raising.
JsonLoadsLenient(raw) ==
    CASE raw = Reading1 -> Sample(1)
      [] raw = Reading2 -> Sample(2)
      [] raw = "5" -> PyInt(5)
      [] OTHER -> Dict({})

JsonLoads(raw) ==
    CASE raw = Reading1 -> Sample(1)
      [] raw = Reading2 -> Sample(2)
      [] raw = "{}" -> Dict({})
      [] raw = "5" -> PyInt(5)
      [] OTHER -> JSONDecodeError

\* The payload texts of the model: two readings, the empty document, a bare
\* number, and text that is not JSON.
InvalidJson == {"not-json-garbage"}
Payloads == {Reading1, Reading2, "{}", "5"} \cup InvalidJson

\* msg.payload.decode(): the text of the bytes, or UnicodeDecodeError for
\* bytes that are not UTF-8 ("0xFF" stands for the one byte b'\xff').
UndecodableBytes == {"0xFF"}
BytesDecode(raw) ==
    IF raw \in UndecodableBytes
    THEN [t |-> "UnicodeDecodeError", v |-> ""]
    ELSE [t |-> "str", v |-> raw]

\* Every kind of payload: the above and bytes that are not text.
AllPayloads == Payloads \cup UndecodableBytes

\* Topics as their segments: "sensor/jadwiga" and "sensor/garaz".
Topics == {<<"sensor", "jadwiga">>, <<"sensor", "garaz">>}

\* The callback threads: paho's network thread, and a second producer.
Threads == {"paho", "other"}

-----------------------------------------------------------------------------
(* MQTTState.__init__ and the first evaluation of the script.              *)

TheStore == [latest |-> latest, previous |-> previous, history |-> history]

\* get_mqtt_state(): the one cached MQTTState of the process, whatever the
\* topic of the messages that filled it.
get_mqtt_state == TheStore

Constructed ==
    /\ connected = FALSE
    /\ history = <<>>
    /\ latest = Dict({})
    /\ previous = Dict({})
    /\ max_history = MaxHistory
    /\ pc = [t \in Threads |-> "idle"]
    /\ msg = [t \in Threads |-> NoMsg]
    /\ payload = [t \in Threads |-> None]
    /\ tmp = [t \in Threads |-> None]
    /\ logged = [t \in Threads |-> ""]
    /\ rpc = "L246"
    /\ data = None
    /\ prev = None
    /\ chart1 = None
    /\ chart2 = None
    /\ rows = None
    /\ sent = <<>>
    /\ applied = <<>>
    /\ stable = [latest |-> Dict({}), previous |-> Dict({}), history |-> <<>>]
    /\ rseen = {}
    /\ subscribed = 0
    /\ lastcb = "none"
    /\ connects = 0
    /\ callbacks = 0
    /\ console = "L115"
    /\ console_out = <<>>
    /\ console_subscribed = 0
    /\ console_connects = 0
    /\ console_callbacks = 0

\* The polling loop is entered: start_mqtt_client has returned a client and
\* render_sidebar (195) has shown the connection state, False so far.
Init ==
    /\ Constructed
    /\ client = "client"
    /\ script = "L245"
    /\ sidebar = "Disconnected"

\* The script starts: start_mqtt_client has not been called yet.
InitLifecycle ==
    /\ Constructed
    /\ client = "unset"
    /\ script = "L191"
    /\ sidebar = ""

-----------------------------------------------------------------------------
(* on_message (app.py:94-118), one action per line of its body.            *)

\* The metrics of the polling loop that chart a column of the history, in
\* the order of the loop body, each with the line of its pd.DataFrame call.
Metrics ==
    <<[line |-> "L261", column |-> "temperature"],
      [line |-> "L284", column |-> "gas_level"],
      [line |-> "L298", column |-> "temperature_out"],
      [line |-> "L314", column |-> "humidity_out"],
      [line |-> "L330", column |-> "motor_adc"],
      [line |-> "L357", column |-> "acceleration_x"],
      [line |-> "L373", column |-> "acceleration_y"],
      [line |-> "L389", column |-> "acceleration_z"],
      [line |-> "L404", column |-> "gyro_x"],
      [line |-> "L417", column |-> "gyro_y"],
      [line |-> "L430", column |-> "gyro_z"]>>
LineAfter(k) == IF k < Len(Metrics) THEN Metrics[k + 1].line ELSE "L435"
ChartLines == {Metrics[k].line : k \in DOMAIN Metrics} \cup {"L436"}

\* The polling loop is inside the body of `if state.latest:`.
InIteration == rpc \in {"L247", "L248", "L435"} \cup ChartLines

\* How an uncaught exception ends a thread.
Raised(e) == "raised " \o e.t \o ": " \o e.v

Idle(t) == pc[t] = "idle"

\* The callback returns: its locals die, and the history variables record
\* the call.  ok: the call raised nothing; line: what it logged.
Return(t, ok, line) ==
    /\ pc' = [pc EXCEPT ![t] = "idle"]
    /\ msg' = [msg EXCEPT ![t] = NoMsg]
    /\ payload' = [payload EXCEPT ![t] = None]
    /\ tmp' = [tmp EXCEPT ![t] = None]
    /\ logged' = [logged EXCEPT ![t] = line]
    /\ applied' = IF ok THEN Append(applied, payload[t]) ELSE applied
    /\ stable' = IF \A u \in Threads \ {t} : Idle(u)
                 THEN [latest |-> latest', previous |-> previous', history |-> history']
                 ELSE stable
    /\ rseen' = IF InIteration THEN rseen \cup {stable'} ELSE rseen
    /\ UNCHANGED <<sent, reader>>

\* The transport delivers a message to the callback.
Deliver(t, m) ==
    /\ Idle(t)
    /\ pc' = [pc EXCEPT ![t] = "L104"]
    /\ msg' = [msg EXCEPT ![t] = m]
    /\ logged' = [logged EXCEPT ![t] = ""]
    /\ sent' = Append(sent, m.payload)
    /\ UNCHANGED <<store, payload, tmp, reader, applied, stable, rseen>>
    /\ UNCHANGED <<life, cons>>

\* 104: payload = json.loads(msg.payload.decode()); 115-116 on
\* JSONDecodeError, 117-118 on UnicodeDecodeError.
L104(t) ==
    /\ pc[t] = "L104"
    /\ LET d == BytesDecode(msg[t].payload)
           r == JsonLoads(d.v)
       IN
       IF d.t = "UnicodeDecodeError"
       THEN /\ UNCHANGED store
            /\ Return(t, FALSE, "Error processing message")
       ELSE IF r = JSONDecodeError
       THEN /\ UNCHANGED store
            /\ Return(t, FALSE, "Invalid JSON received")
       ELSE /\ payload' = [payload EXCEPT ![t] = r]
            /\ pc' = [pc EXCEPT ![t] = "L106"]
            /\ UNCHANGED <<store, msg, tmp, logged, reader, ghost>>
    /\ UNCHANGED <<life, cons>>

\* 106: if userdata.latest:
L106(t) ==
    /\ pc[t] = "L106"
    /\ pc' = [pc EXCEPT ![t] = IF Truthy(latest) THEN "L107" ELSE "L109"]
    /\ UNCHANGED <<store, msg, payload, tmp, logged, reader, ghost>>
    /\ UNCHANGED <<life, cons>>

\* 107, right-hand side: userdata.latest.copy(); 117-118 on AttributeError.
L107(t) ==
    /\ pc[t] = "L107"
    /\ IF HasCopy(latest)
       THEN /\ tmp' = [tmp EXCEPT ![t] = latest]
            /\ pc' = [pc EXCEPT ![t] = "L107s"]
            /\ UNCHANGED <<store, msg, payload, logged, reader, ghost>>
       ELSE /\ UNCHANGED store
            /\ Return(t, FALSE, "Error processing message")
    /\ UNCHANGED <<life, cons>>

\* 107, assignment: userdata.previous = <the copy>
L107s(t) ==
    /\ pc[t] = "L107s"
    /\ previous' = tmp[t]
    /\ pc' = [pc EXCEPT ![t] = "L109"]
    /\ UNCHANGED <<connected, history, latest, max_history>>
    /\ UNCHANGED <<msg, payload, tmp, logged, reader, ghost>>
    /\ UNCHANGED <<life, cons>>

\* 109: userdata.latest = payload
L109(t) ==
    /\ pc[t] = "L109"
    /\ latest' = payload[t]
    /\ pc' = [pc EXCEPT ![t] = "L110"]
    /\ UNCHANGED <<connected, history, previous, max_history>>
    /\ UNCHANGED <<msg, payload, tmp, logged, reader, ghost>>
    /\ UNCHANGED <<life, cons>>

\* list.append(x)
ListAppend(h, x) == Append(h, x)

\* 110: userdata.history.append(payload)
L110(t) ==
    /\ pc[t] = "L110"
    /\ history' = ListAppend(history, payload[t])
    /\ pc' = [pc EXCEPT ![t] = "L112"]
    /\ UNCHANGED <<connected, latest, previous, max_history>>
    /\ UNCHANGED <<msg, payload, tmp, logged, reader, ghost>>
    /\ UNCHANGED <<life, cons>>

\* The comparison of line 112 with >= in place of >.
OverCapGE(h, cap) == Len(h) >= cap

\* The comparison of line 112 off by one.
OverCapLate(h, cap) == Len(h) > cap + 1

\* The condition of line 112.
OverCap(h, cap) == Len(h) > cap

\* 112: if len(userdata.history) > userdata.max_history:
L112(t) ==
    /\ pc[t] = "L112"
    /\ IF OverCap(history, max_history)
       THEN /\ pc' = [pc EXCEPT ![t] = "L113"]
            /\ UNCHANGED <<store, msg, payload, tmp, logged, reader, ghost>>
       ELSE /\ UNCHANGED store
            /\ Return(t, TRUE, "")
    /\ UNCHANGED <<life, cons>>

\* list.pop(): the list without its last element.
PopLast(h) == SubSeq(h, 1, Len(h) - 1)

\* list.pop(0): the list without its first element.
Pop0(h) == Tail(h)

\* 113: userdata.history.pop(0); 117-118 on IndexError (pop from empty list).
L113(t) ==
    /\ pc[t] = "L113"
    /\ IF history = <<>>
       THEN /\ UNCHANGED store
            /\ Return(t, FALSE, "Error processing message")
       ELSE /\ history' = Pop0(history)
            /\ UNCHANGED <<connected, latest, previous, max_history>>
            /\ Return(t, TRUE, "")
    /\ UNCHANGED <<life, cons>>

on_message(t) ==
    \/ L104(t) \/ L106(t) \/ L107(t) \/ L107s(t)
    \/ L109(t) \/ L110(t) \/ L112(t) \/ L113(t)

-----------------------------------------------------------------------------
(* The polling loop of main() (app.py:245-480).  state.history is read     *)
(* again at every chart; pd.DataFrame is handed the live list and reads    *)
(* its rows one after another while on_message may append and pop.         *)

\* The exception ends main(): its locals die.
Raise(e) ==
    /\ rpc' = Raised(e)
    /\ data' = None
    /\ prev' = None
    /\ chart1' = None
    /\ chart2' = None
    /\ rows' = None
    /\ rseen' = {}

\* 246: if state.latest: ... else (477-478) elif state.connected: ...
R246 ==
    /\ rpc = "L246"
    /\ IF Truthy(latest)
       THEN /\ rpc' = "L247"
            /\ rseen' = {stable}
       ELSE /\ rpc' = "L480"
            /\ rseen' = rseen
    /\ UNCHANGED <<store, locals, data, prev, chart1, chart2, rows, sent, applied, stable>>
    /\ UNCHANGED <<life, cons>>

\* 247: data = state.latest
R247 ==
    /\ rpc = "L247"
    /\ data' = latest
    /\ rpc' = "L248"
    /\ UNCHANGED <<store, locals, prev, chart1, chart2, rows, ghost>>
    /\ UNCHANGED <<life, cons>>

\* 248: prev = state.previous
R248 ==
    /\ rpc = "L248"
    /\ prev' = previous
    /\ rpc' = "L261"
    /\ UNCHANGED <<store, locals, data, chart1, chart2, rows, ghost>>
    /\ UNCHANGED <<life, cons>>

\* pd.DataFrame(rs)[column] on rows that are dicts or bare numbers: the
\* column with NaN where a row lacks it; KeyError when no row has it or the
\* rows are not records; AttributeError when a row after a dict has no keys.
DataFrameColumn(rs, column) ==
    IF rs = <<>> \/ rs[1].t # "dict"
    THEN Exception("KeyError", "'" \o column \o "'")
    ELSE IF \E i \in DOMAIN rs : rs[i].t # "dict"
    THEN Exception("AttributeError", "'int' object has no attribute 'keys'")
    ELSE IF \A i \in DOMAIN rs : column \notin Keys(rs[i])
    THEN Exception("KeyError", "'" \o column \o "'")
    ELSE Series([i \in DOMAIN rs |->
                    IF column \in Keys(rs[i])
                    THEN PyInt(DictGet(rs[i], column))
                    ELSE NaN])

\* pd.DataFrame(h)[column] if h else None, for a list h that does not change
\* while the expression is evaluated.
ChartData(h, column) == IF h # <<>> THEN DataFrameColumn(h, column) ELSE None

\* The argument values of metric k up to the condition of its chart_data:
\* data.get(...) (252: AttributeError when data is not a dict), prev.get(...),
\* and `if state.history` (262): pd.DataFrame is called on a non-empty list.
MetricBegin(k) ==
    /\ rpc = Metrics[k].line
    /\ rows = None
    /\ IF ~HasGet(data)
       THEN Raise(Exception("AttributeError", "'int' object has no attribute 'get'"))
       ELSE IF history # <<>>
       THEN /\ rows' = Frame(<<>>)
            /\ UNCHANGED <<rpc, data, prev, chart1, chart2, rseen>>
       ELSE /\ chart1' = IF k = 1 THEN None ELSE chart1
            /\ chart2' = IF k = 2 THEN None ELSE chart2
            /\ rpc' = LineAfter(k)
            /\ UNCHANGED <<data, prev, rows, rseen>>
    /\ UNCHANGED <<store, locals, sent, applied, stable>>
    /\ UNCHANGED <<life, cons>>

\* pd.DataFrame(state.history), one row: the list iterator yields the
\* element at its index if the list, as it is now, has one.
DataFrameNext ==
    /\ rpc \in ChartLines
    /\ rows # None
    /\ Len(rows.v) < Len(history)
    /\ rows' = Frame(Append(rows.v, history[Len(rows.v) + 1]))
    /\ UNCHANGED <<store, locals, rpc, data, prev, chart1, chart2, ghost>>
    /\ UNCHANGED <<life, cons>>

\* The list is exhausted: the frame is subscripted with the column of
\* metric k and handed to st.metric.
MetricEnd(k) ==
    /\ rpc = Metrics[k].line
    /\ rows # None
    /\ Len(rows.v) >= Len(history)
    /\ LET c == DataFrameColumn(rows.v, Metrics[k].column)
       IN IF IsException(c)
          THEN Raise(c)
          ELSE /\ chart1' = IF k = 1 THEN c ELSE chart1
               /\ chart2' = IF k = 2 THEN c ELSE chart2
               /\ rpc' = LineAfter(k)
               /\ rows' = None
               /\ UNCHANGED <<data, prev, rseen>>
    /\ UNCHANGED <<store, locals, sent, applied, stable>>
    /\ UNCHANGED <<life, cons>>

\* 252-265: the Temperature metric.
R261 == MetricBegin(1) \/ MetricEnd(1)

\* 268-286: the Gas Level metric.
R284 == MetricBegin(2) \/ MetricEnd(2)

\* 289-432: the metrics from Temperature Outside to Gyro Z.
R298 == \E k \in 3..Len(Metrics) : MetricBegin(k) \/ MetricEnd(k)

\* 435: if len(state.history) > 1: df = pd.DataFrame(state.history)
R435 ==
    /\ rpc = "L435"
    /\ IF Len(history) > 1
       THEN /\ rpc' = "L436"
            /\ rows' = Frame(<<>>)
            /\ rseen' = rseen
       ELSE /\ rpc' = "L480"
            /\ rows' = rows
            /\ rseen' = {}
    /\ UNCHANGED <<store, locals, data, prev, chart1, chart2, sent, applied, stable>>
    /\ UNCHANGED <<life, cons>>

\* The column lists of the three charts (440-445, 450, 456-465).
ChartColumns ==
    <<{"temperature", "temperature_out"},
      {"humidity_out", "gas_level", "motor_adc"},
      {"acceleration_x", "gyro_x", "acceleration_y", "gyro_y",
       "acceleration_z", "gyro_z"}>>

\* df[[columns]] for each chart in turn: the exception of the first that
\* fails, or None when all three are drawn.
DataFrameSelect(rs) ==
    IF rs = <<>> \/ rs[1].t # "dict"
    THEN Exception("KeyError", "not in index")
    ELSE IF \E i \in DOMAIN rs : rs[i].t # "dict"
    THEN Exception("AttributeError", "'int' object has no attribute 'keys'")
    ELSE IF \E j \in DOMAIN ChartColumns : \E c \in ChartColumns[j] :
                \A i \in DOMAIN rs : c \notin Keys(rs[i])
    THEN Exception("KeyError", "not in index")
    ELSE None

\* 436-475: the frame is complete and the three charts are drawn from it.
R436 ==
    /\ rpc = "L436"
    /\ rows # None
    /\ Len(rows.v) >= Len(history)
    /\ LET e == DataFrameSelect(rows.v)
       IN IF IsException(e)
          THEN Raise(e)
          ELSE /\ rpc' = "L480"
               /\ rows' = None
               /\ rseen' = {}
               /\ UNCHANGED <<data, prev, chart1, chart2>>
    /\ UNCHANGED <<store, locals, sent, applied, stable>>
    /\ UNCHANGED <<life, cons>>

\* 480: time.sleep(0.05) and the next iteration; the locals of the iteration
\* are dead from here on (each is assigned again before it is next read).
R480 ==
    /\ rpc = "L480"
    /\ rpc' = "L246"
    /\ data' = None
    /\ prev' = None
    /\ chart1' = None
    /\ chart2' = None
    /\ rseen' = {}
    /\ UNCHANGED <<store, locals, rows, sent, applied, stable>>
    /\ UNCHANGED <<life, cons>>

main ==
    \/ R246 \/ R247 \/ R248
    \/ R261 \/ R284 \/ R298 \/ DataFrameNext
    \/ R435 \/ R436 \/ R480

-----------------------------------------------------------------------------
(* The program: paho's network thread delivers the messages one after      *)
(* another (start_mqtt_client, app.py:122-135: one client, loop_start),    *)
(* while the script thread runs the polling loop.                          *)

DeliverOne ==
    /\ Len(sent) < MaxMsgs
    /\ \E m \in [topic : Topics, payload : Payloads] : Deliver("paho", m)

Next ==
    \/ DeliverOne
    \/ on_message("paho")
    \/ main

Spec == Init /\ [][Next]_vars

(* Several producers: on_message runs on more than one thread at once.     *)

DeliverAny ==
    /\ Len(sent) < MaxProduced
    /\ \E t \in Threads : \E m \in [topic : Topics, payload : Payloads] : Deliver(t, m)

NextProducers ==
    \/ DeliverAny
    \/ \E t \in Threads : on_message(t)

SpecProducers == Init /\ [][NextProducers]_vars

(* The callback alone, fed every kind of payload, one call after another.  *)

DeliverKind ==
    /\ Len(sent) < MaxKindMsgs
    /\ \E m \in [topic : Topics, payload : AllPayloads] : Deliver("paho", m)

NextKinds ==
    \/ DeliverKind
    \/ on_message("paho")

SpecKinds == Init /\ [][NextKinds]_vars

-----------------------------------------------------------------------------
(* The connection lifecycle of app.py (62-91, 122-138, 191-199).  The      *)
(* callbacks run on the client's network thread, between on_message calls, *)
(* while the script thread renders the page.                               *)

\* Result codes of a CONNACK: accepted, and refused (5: not authorised).
ResultCodes == {0, 5}

\* AppConfig.TOPIC, "sensor/all".
TOPIC == <<"sensor", "all">>

\* 123-138: client.connect succeeds and loop_start runs the network thread,
\* or connect raises and None is returned; 191-192 follow.
start_mqtt_client(ok) ==
    /\ script = "L191"
    /\ client = "unset"
    /\ client' = IF ok THEN "client" ELSE "None"
    /\ script' = "L195"
    /\ UNCHANGED <<store, locals, reader, ghost, cons>>
    /\ UNCHANGED <<sidebar, subscribed, lastcb, connects, callbacks>>

\* 195, 142-155: render_sidebar(state) reads state.connected once.
render_sidebar ==
    /\ script = "L195"
    /\ sidebar' = IF connected THEN "Connected" ELSE "Disconnected"
    /\ script' = "L197"
    /\ UNCHANGED <<store, locals, reader, ghost, cons>>
    /\ UNCHANGED <<client, subscribed, lastcb, connects, callbacks>>

\* 197-199: if client is None: st.error(...); st.stop(); else on to the loop.
L197 ==
    /\ script = "L197"
    /\ script' = IF client = "None" THEN "stopped" ELSE "L245"
    /\ UNCHANGED <<store, locals, reader, ghost, cons>>
    /\ UNCHANGED <<client, sidebar, subscribed, lastcb, connects, callbacks>>

\* The client is made with CallbackAPIVersion.VERSION2 (app.py:126,
\* main.py:105): on_connect and on_disconnect are each called with five
\* positional arguments (client, userdata, flags, reason code, properties).
CallbackArgs == 5

\* 62-64: def on_connect(client, userdata, flags, rc, properties=None)
OnConnectAccepts(n) == n \in 4..5

\* 84-86: def on_disconnect(client, userdata, rc, properties=None)
OnDisconnectAccepts(n) == n \in 3..4

\* 75: if rc == 0:
ConnectOk(rc) == rc = 0

\* No subscription request is sent.
SubscribeNot(n) == n

\* client.subscribe(topic): one more subscription request sent.
Subscribe(n) == n + 1

\* The network thread is running and is not inside a callback.
NetworkThreadFree ==
    /\ client = "client"
    /\ Idle("paho")
    /\ callbacks < MaxCallbacks

\* 62-76, 79-81: on_connect up to its assignment of connected.
on_connect(rc) ==
    /\ NetworkThreadFree
    /\ OnConnectAccepts(CallbackArgs)
    /\ IF ConnectOk(rc)
       THEN /\ connected' = TRUE
            /\ pc' = [pc EXCEPT !["paho"] = "L77"]
       ELSE /\ connected' = FALSE
            /\ pc' = pc
    /\ lastcb' = IF rc = 0 THEN "on_connect_0" ELSE "on_connect_rc"
    /\ connects' = IF rc = 0 THEN connects + 1 ELSE connects
    /\ callbacks' = callbacks + 1
    /\ UNCHANGED <<history, latest, previous, max_history>>
    /\ UNCHANGED <<msg, payload, tmp, logged, reader, ghost, cons>>
    /\ UNCHANGED <<client, script, sidebar, subscribed>>

\* 77-78: client.subscribe(AppConfig.TOPIC), and on_connect returns.
L77 ==
    /\ pc["paho"] = "L77"
    /\ subscribed' = Subscribe(subscribed)
    /\ pc' = [pc EXCEPT !["paho"] = "idle"]
    /\ UNCHANGED <<store, msg, payload, tmp, logged, reader, ghost, cons>>
    /\ UNCHANGED <<client, script, sidebar, lastcb, connects, callbacks>>

\* 84-91: on_disconnect as the client calls it.  The call does not fit the
\* signature: TypeError is raised before line 90 and, the client not
\* suppressing exceptions, ends the network thread.
on_disconnect ==
    /\ NetworkThreadFree
    /\ IF OnDisconnectAccepts(CallbackArgs)
       THEN /\ connected' = FALSE
            /\ pc' = pc
       ELSE /\ connected' = connected
            /\ pc' = [pc EXCEPT !["paho"] = Raised(Exception("TypeError",
                   "on_disconnect() takes from 3 to 4 positional arguments but 5 were given"))]
    /\ lastcb' = "on_disconnect"
    /\ callbacks' = callbacks + 1
    /\ UNCHANGED <<history, latest, previous, max_history>>
    /\ UNCHANGED <<msg, payload, tmp, logged, reader, ghost, cons>>
    /\ UNCHANGED <<client, script, sidebar, subscribed, connects>>

\* The payloads sent during the lifecycle: a reading, and text that is not JSON.
LifePayloads == {Reading1} \cup InvalidJson

\* The broker sends a message on the subscribed topic while the session that
\* on_connect reported is up.
DeliverSubscribed ==
    /\ client = "client"
    /\ lastcb = "on_connect_0"
    /\ Len(sent) < MaxLifeMsgs
    /\ \E p \in LifePayloads : Deliver("paho", [topic |-> TOPIC, payload |-> p])

(* The console subscriber, main.py.  Everything runs in the main thread:   *)
(* on_connect is called from loop_forever, and KeyboardInterrupt can be    *)
(* raised between any two of its lines.  It registers no on_disconnect:    *)
(* loop_forever reconnects after a drop and calls on_connect again.        *)

\* main.py 112-116: client.connect succeeds, or raises an Exception that
\* line 116 catches.
console_connect(ok) ==
    /\ console = "L115"
    /\ console' = IF ok THEN "L123" ELSE "L117"
    /\ UNCHANGED <<store, locals, reader, ghost, life>>
    /\ UNCHANGED <<console_out, console_subscribed, console_connects, console_callbacks>>

\* main.py 117: print("Could not connect to broker: ...")
console_L117 ==
    /\ console = "L117"
    /\ console' = "L118"
    /\ UNCHANGED <<store, locals, reader, ghost, life>>
    /\ UNCHANGED <<console_out, console_subscribed, console_connects, console_callbacks>>

\* main.py 118: print("Is Docker running? Is the IP correct?")
console_L118 ==
    /\ console = "L118"
    /\ console' = "L119"
    /\ UNCHANGED <<store, locals, reader, ghost, life>>
    /\ UNCHANGED <<console_out, console_subscribed, console_connects, console_callbacks>>

\* main.py 119: sys.exit(1)
console_L119 ==
    /\ console = "L119"
    /\ console' = "exit1"
    /\ UNCHANGED <<store, locals, reader, ghost, life>>
    /\ UNCHANGED <<console_out, console_subscribed, console_connects, console_callbacks>>

\* main.py 45: if rc == 0:
ConsoleConnectOk(rc) == rc = 0

\* main.py 32-45: on_connect is called from loop_forever and tests rc.
console_on_connect(rc) ==
    /\ console = "L123"
    /\ console_callbacks < MaxCallbacks
    /\ OnConnectAccepts(CallbackArgs)
    /\ console' = IF ConsoleConnectOk(rc) THEN "L46" ELSE "L51"
    /\ console_out' = <<>>
    /\ console_connects' = IF rc = 0 THEN console_connects + 1 ELSE console_connects
    /\ console_callbacks' = console_callbacks + 1
    /\ UNCHANGED console_subscribed
    /\ UNCHANGED <<store, locals, reader, ghost, life>>

\* main.py 46: print("Connected to MQTT Broker!")
console_L46 ==
    /\ console = "L46"
    /\ console_out' = Append(console_out, "Connected to MQTT Broker!")
    /\ console' = "L48"
    /\ UNCHANGED <<console_subscribed, console_connects, console_callbacks>>
    /\ UNCHANGED <<store, locals, reader, ghost, life>>

\* main.py 48: client.subscribe(userdata.topic)
console_L48 ==
    /\ console = "L48"
    /\ console_subscribed' = Subscribe(console_subscribed)
    /\ console' = "L49"
    /\ UNCHANGED <<console_out, console_connects, console_callbacks>>
    /\ UNCHANGED <<store, locals, reader, ghost, life>>

\* main.py 49: print("Subscribed to topic: ..."), and on_connect returns.
console_L49 ==
    /\ console = "L49"
    /\ console_out' = Append(console_out, "Subscribed to topic: sensor/all")
    /\ console' = "L123"
    /\ UNCHANGED <<console_subscribed, console_connects, console_callbacks>>
    /\ UNCHANGED <<store, locals, reader, ghost, life>>

\* main.py 51: print("Connection failed with code: ..."), and on_connect returns.
console_L51 ==
    /\ console = "L51"
    /\ console_out' = Append(console_out, "Connection failed with code")
    /\ console' = "L123"
    /\ UNCHANGED <<console_subscribed, console_connects, console_callbacks>>
    /\ UNCHANGED <<store, locals, reader, ghost, life>>

\* The lines of main.py inside the try of 122-123: loop_forever and the
\* body of on_connect.
ConsoleLoopLines == {"L123", "L46", "L48", "L49", "L51"}

\* The lines of main.py where KeyboardInterrupt is caught by no handler:
\* client.connect (116 catches Exception only), the handler of 116-119 and
\* the handler of 124-126.
ConsoleUncaughtLines == {"L115", "L117", "L118", "L119", "L125", "L126"}

\* KeyboardInterrupt.  Inside loop_forever, the callback included, it is
\* caught at main.py 124; anywhere else it ends the process uncaught.
console_interrupt ==
    /\ console \in ConsoleLoopLines \cup ConsoleUncaughtLines
    /\ console' = IF console \in ConsoleLoopLines
                  THEN "L125"
                  ELSE "raised KeyboardInterrupt"
    /\ UNCHANGED <<store, locals, reader, ghost, life>>
    /\ UNCHANGED <<console_out, console_subscribed, console_connects, console_callbacks>>

\* main.py 125: print("Disconnected by user. Exiting...")
console_L125 ==
    /\ console = "L125"
    /\ console' = "L126"
    /\ UNCHANGED <<store, locals, reader, ghost, life>>
    /\ UNCHANGED <<console_out, console_subscribed, console_connects, console_callbacks>>

\* main.py 126: client.disconnect(); main() returns and the process ends
\* with status 0.
console_L126 ==
    /\ console = "L126"
    /\ console' = "exit0"
    /\ UNCHANGED <<store, locals, reader, ghost, life>>
    /\ UNCHANGED <<console_out, console_subscribed, console_connects, console_callbacks>>

NextLifecycle ==
    \/ \E ok \in BOOLEAN : start_mqtt_client(ok)
    \/ render_sidebar
    \/ L197
    \/ \E rc \in ResultCodes : on_connect(rc)
    \/ L77
    \/ on_disconnect
    \/ DeliverSubscribed
    \/ on_message("paho")
    \/ \E ok \in BOOLEAN : console_connect(ok)
    \/ console_L117
    \/ console_L118
    \/ console_L119
    \/ \E rc \in ResultCodes : console_on_connect(rc)
    \/ console_L46
    \/ console_L48
    \/ console_L49
    \/ console_L51
    \/ console_interrupt
    \/ console_L125
    \/ console_L126

SpecLifecycle == InitLifecycle /\ [][NextLifecycle]_vars

-----------------------------------------------------------------------------
(* on_message run from its first line to its return with no other thread   *)
(* in between (app.py:103-118), as a function of the store.                *)

ApplyUpdate(s, u) ==
    IF Truthy(s.latest) /\ ~HasCopy(s.latest)
    THEN s
    ELSE LET p == IF Truthy(s.latest) THEN s.latest ELSE s.previous
             h == ListAppend(s.history, u)
         IN [latest |-> u,
             previous |-> p,
             history |-> IF OverCap(h, max_history) THEN Pop0(h) ELSE h]

EmptyStore == [latest |-> Dict({}), previous |-> Dict({}), history |-> <<>>]

-----------------------------------------------------------------------------
(* Properties.                                                             *)

AllIdle == \A t \in Threads : Idle(t)
Last(s) == s[Len(s)]
Min(a, b) == IF a < b THEN a ELSE b
LastN(s, n) == SubSeq(s, Len(s) - n + 1, Len(s))
Count(s, x) == Cardinality({i \in DOMAIN s : s[i] = x})
Decoded(raws) == [i \in DOMAIN raws |-> JsonLoads(raws[i])]
AllObjects(raws) == \A i \in DOMAIN raws : JsonLoads(raws[i]).t = "dict"

\* The JSON objects of the model, and the lists the history can be.
Objects == {JsonLoads(r) : r \in {r \in Payloads : JsonLoads(r).t = "dict"}}
Histories == UNION {[1..n -> Objects] : n \in 0..(max_history + 1)}

\* The device a topic names, in the terms of the device-isolation property:
\* its trailing segment.  The source never reads msg.topic.
DeviceId(topic) == topic[Len(topic)]
Devices == {DeviceId(tp) : tp \in Topics}

\* C1: what one polling iteration reads as (latest, previous, history) is one
\* store that existed when no on_message was in progress during that
\* iteration: the store before the overlapping call or the store after it
\* (all payloads being JSON objects).  The history it read is the one whose
\* temperature column the first chart was given.
C1_NoTornRead ==
    (rpc = "L284" /\ rows = None /\ AllObjects(sent)) =>
        \E s \in rseen :
            /\ s.latest = data
            /\ s.previous = prev
            /\ ChartData(s.history, "temperature") = chart1

\* C2: the history never holds more than max_history samples, in any state
\* of the store, the states in the middle of an on_message included.
C2_HistoryBounded == AllObjects(sent) => Len(history) <= max_history

\* C3: after k updates applied one after another, the history is the last
\* min(k, max_history) applied samples, in delivery order.
C3_HistoryIsLastN ==
    AllIdle => history = LastN(applied, Min(Len(applied), max_history))

\* C3 witness: more updates than the capacity were applied and the first was evicted.
C3_Evicted ==
    /\ AllIdle
    /\ Len(applied) > max_history
    /\ Len(history) = max_history
    /\ history[1] # applied[1]
    /\ history[1] = applied[Len(applied) - max_history + 1]

\* C4: when an update has been applied, previous is the value latest had just
\* before that update (the empty dict, "absent", on the first update), for
\* every sequence of JSON-object payloads, the empty object included.
C4_PreviousIsOldLatest ==
    [][\A t \in Threads :
          (/\ pc[t] \in {"L112", "L113"}
           /\ pc'[t] = "idle"
           /\ Len(applied') > Len(applied)
           /\ AllObjects(sent))
              => previous' = stable.latest]_vars

\* C5: in every state of the store, the states in the middle of an
\* on_message included, latest is the last element of a non-empty history,
\* and is the empty dict when the history is empty.
C5_LatestIsLastOfHistory ==
    IF history # <<>> THEN latest = Last(history) ELSE latest = Dict({})

\* C6: no step of an on_message call whose payload is not JSON changes
\* latest, previous or history.
C6_BadPayloadNoMutation ==
    [][\A t \in Threads :
          (pc[t] # "idle" /\ msg[t].payload \in InvalidJson)
              => UNCHANGED <<latest, previous, history>>]_vars

\* C6 witness: a call with an invalid payload has returned on a non-empty store.
C6_BadPayloadReturned ==
    /\ logged["paho"] = "Invalid JSON received"
    /\ Idle("paho")
    /\ Last(sent) \in InvalidJson
    /\ history # <<>>

\* C7: a step of on_message for a message on one device's topic leaves what
\* a reader obtains for any other device unchanged.
C7_DeviceIsolation ==
    [][\A t \in Threads : \A d \in Devices :
          (pc[t] # "idle" /\ DeviceId(msg[t].topic) # d)
              => get_mqtt_state' = get_mqtt_state]_vars

\* C8: when at most max_history on_message calls with JSON-object payloads
\* have run, in any interleaving, on the empty store, the history holds each
\* of their samples exactly as often as it was sent.
C8_NoLostUpdates ==
    (AllIdle /\ Len(sent) <= max_history /\ AllObjects(sent))
        => \A x \in {JsonLoads(r) : r \in Payloads \ InvalidJson} :
               Count(history, x) = Count(Decoded(sent), x)

\* C8 witness: two concurrent calls have both returned, the one delivered
\* later having appended first.
C8_BothPresentReordered ==
    /\ AllIdle
    /\ Len(sent) = 2
    /\ AllObjects(sent)
    /\ JsonLoads(sent[1]) # JsonLoads(sent[2])
    /\ history = <<JsonLoads(sent[2]), JsonLoads(sent[1])>>

\* C9: every use of the history within one polling iteration sees the same
\* contents: the columns handed to the first two charts are columns of one
\* and the same list (all payloads being JSON objects).
C9_SnapshotImmutable ==
    (rpc = "L298" /\ rows = None /\ AllObjects(sent)) =>
        \E h \in Histories :
            /\ chart1 = ChartData(h, "temperature")
            /\ chart2 = ChartData(h, "gas_level")

\* C10: when two on_message calls with JSON-object payloads have both
\* returned, the store is the result of the two updates applied one after
\* the other in one of the two orders.
C10_Serializable ==
    (AllIdle /\ Len(sent) = 2 /\ AllObjects(sent))
        => LET u1 == JsonLoads(sent[1])
               u2 == JsonLoads(sent[2])
           IN TheStore \in {ApplyUpdate(ApplyUpdate(EmptyStore, u1), u2),
                            ApplyUpdate(ApplyUpdate(EmptyStore, u2), u1)}

WellFormed(raw) == BytesDecode(raw).t = "str" /\ JsonLoads(raw).t = "dict"

\* C11: once a message that is not a JSON object has been handled, every
\* later on_message whose payload is a JSON object is applied: when it
\* returns, its sample is latest and the last element of history.
C11_BadMessageIsLocal ==
    [][\A t \in Threads :
          (/\ pc[t] # "idle"
           /\ pc'[t] = "idle"
           /\ WellFormed(msg[t].payload)
           /\ \E i \in 1..(Len(sent) - 1) : ~WellFormed(sent[i]))
              => (/\ latest' = JsonLoads(msg[t].payload)
                  /\ history' # <<>>
                  /\ Last(history') = JsonLoads(msg[t].payload))]_vars

\* C16: a call of on_message that runs alone returns with the store as it
\* was when the call began and one of the two error lines logged, or with
\* the whole update applied and nothing logged: the payload is latest, it
\* was appended to the history the call found, and the cap was enforced by
\* dropping the oldest sample.
C16_AllOrNothing ==
    [][\A t \in Threads :
          (pc[t] # "idle" /\ pc'[t] = "idle")
              => \/ /\ TheStore' = stable
                    /\ logged'[t] \in {"Invalid JSON received", "Error processing message"}
                    /\ applied' = applied
                 \/ /\ logged'[t] = ""
                    /\ BytesDecode(msg[t].payload).t = "str"
                    /\ latest' = JsonLoads(msg[t].payload)
                    /\ Last(history') = latest'
                    /\ Len(history') <= max_history
                    /\ history' = LastN(Append(stable.history, latest'),
                                        Min(Len(stable.history) + 1, max_history))
                    /\ previous' \in {stable.previous, stable.latest}]_vars

\* C16 witness: all four kinds of payload have been handled, two of them
\* applied and two refused.
C16_EveryKindHandled ==
    /\ AllIdle
    /\ \E i \in DOMAIN sent : sent[i] \in UndecodableBytes
    /\ \E i \in DOMAIN sent : sent[i] \in InvalidJson
    /\ \E i \in DOMAIN sent : WellFormed(sent[i])
    /\ \E i \in DOMAIN sent : sent[i] = "5"
    /\ Len(applied) = 2

\* C12: on_disconnect, and on_connect with a result code other than 0, set
\* connected to False and leave latest, previous and history as they were.
C12_DisconnectKeepsData ==
    [][(callbacks' > callbacks /\ lastcb' \in {"on_disconnect", "on_connect_rc"})
          => (~connected' /\ UNCHANGED <<latest, previous, history>>)]_vars

\* C13: the subscription is issued once for every on_connect with result
\* code 0 and never otherwise, in app.py and in main.py: once no such call
\* is on its way to its subscribe line (app.py 77, main.py 48), the
\* subscriptions sent are as many as those calls.  An on_connect with
\* another result code does not report Connected.
C13_SubscribeOncePerConnect ==
    /\ pc["paho"] # "L77" => subscribed = connects
    /\ console \notin {"L46", "L48"} => console_subscribed = console_connects
    /\ lastcb = "on_connect_rc" => ~connected
    /\ (console = "L123" /\ console_callbacks > 0 /\ console_connects = 0)
           => console_out = <<"Connection failed with code">>

\* C13 amended: the subscription is issued once by every on_connect with
\* result code 0 that reaches its subscribe line, and never otherwise: while
\* the process runs the subscriptions sent are as many as those calls, less
\* the one call still before that line; an on_connect of main.py that
\* KeyboardInterrupt ends before line 48 sends none, so that after an
\* interrupt the count may be one short.  An on_connect with another result
\* code does not report Connected.
C13_SubscribeOncePerCompletedConnect ==
    /\ subscribed = IF pc["paho"] = "L77" THEN connects - 1 ELSE connects
    /\ console \in {"L115", "L117", "L118", "L119", "exit1", "L123", "L49", "L51"}
           => console_subscribed = console_connects
    /\ console \in {"L46", "L48"} => console_subscribed = console_connects - 1
    /\ console \in {"L125", "L126", "exit0", "raised KeyboardInterrupt"}
           => console_subscribed \in {console_connects - 1, console_connects}
    /\ lastcb = "on_connect_rc" => ~connected
    /\ (console = "L123" /\ console_callbacks > 0 /\ console_connects = 0)
           => console_out = <<"Connection failed with code">>

\* C13 witness: app.py has connected and subscribed, and main.py has
\* connected twice among three on_connect calls, the last of them accepted,
\* subscribing both times.
C13_Reconnected ==
    /\ lastcb = "on_connect_0"
    /\ connected
    /\ Idle("paho")
    /\ subscribed = 1
    /\ console = "L123"
    /\ console_subscribed = 2
    /\ console_callbacks = 3
    /\ console_out = <<"Connected to MQTT Broker!", "Subscribed to topic: sensor/all">>

\* C14: connected is True exactly when the last lifecycle callback was an
\* on_connect with result code 0 (False before any callback), whatever
\* on_message calls have run in between.
C14_ConnectedFollowsLifecycle == connected = (lastcb = "on_connect_0")

\* C15: a transport failure never ends the process: neither program exits
\* because the broker refused the connection, and after a refused connect or
\* a drop the store shows connected == False.
C15_TransportFailureNotFatal ==
    /\ console # "exit1"
    /\ client = "None" => ~connected
    /\ lastcb = "on_disconnect" => ~connected

====
